---- MODULE Spec2Model ----
(***************************************************************************)
(* Job-status relay (services/redis-client.js), streaming gateway          *)
(* (GET /stream/:jobId) and the request validation of the upload and       *)
(* download routes of json-to-pptx.                                        *)
(*                                                                         *)
(* The relay talks to the bus over one connection: commands leave in       *)
(* order (outQ), the bus processes them in order, and replies and pushed    *)
(* messages come back in order (inQ).  Every asynchronous function is cut  *)
(* at its awaits: the part up to the await is one step, the continuation    *)
(* is the step that consumes the reply.                                    *)
(***************************************************************************)
EXTENDS Integers, Sequences, FiniteSets, Bags, TLC

\* ------------------------------------------------------------------ bounds
NumListeners == 2      \* callbacks handed to the relay
MaxEvents    == 1      \* status events published on the bus
MaxFail      == 1      \* upstream commands the bus connection rejects
MaxRepeat    == 1      \* repeated invocations of unsubscribe handles
MaxBeats     == 1      \* ticks of one heartbeat timer
MaxIdLen     == 3      \* length of an identifier sent by a client
MaxUploads   == 2      \* uploads that reach the route
MaxConnects  == 2      \* calls of connect() by the application
MaxOutages   == 1      \* times the broker goes away
MaxConns     == 2      \* connections the broker accepts at a time
MaxFanEvents == 2      \* status events published where their order matters
MaxCloses    == 1      \* calls of close() by the application

Ids == 1..NumListeners

\* job identifiers observed by the relay's clients
Jobs == {<<"a">>, <<"b">>}

\* characters of client-supplied identifiers
Alphabet == {"a", ".", "/"}

Strings(n) == UNION {[1..k -> Alphabet] : k \in 0..n}

\* identifiers a client can put in a request
JobIdInputs == Strings(MaxIdLen)

\* the relay only tells payloads that decode from payloads that do not
RelayWire == {"completed", "garbage"}

\* payloads the streaming gateway tells apart
GatewayWire == {"processing", "completed", "failed", "null"}

VARIABLES
  subscriptions,   \* this.subscriptions: channel -> callbacks, insertion order
  upstreamOpen,    \* channels the bus has subscribed for this connection
  outQ,            \* commands sent to the bus, not yet processed by it
  inQ,             \* replies and messages from the bus, not yet handled
  lstate,          \* per callback: position of its subscribeToJobProgress call
  lchan,           \* per callback: the channel it was subscribed with
  invoked,         \* per callback: events it was invoked with
  handleCalls,     \* per callback: invocations of its unsubscribe handle
  issued,          \* commands issued to the bus, counted per kind and channel
  cbErrors,        \* errors logged by the per-callback catch (line 44)
  parseErrors,     \* errors logged by the outer catch (line 52)
  nextEv,          \* events published so far
  dropped,         \* events published while the channel was not open upstream
  lastDispatched,  \* the last event handleMessage has run for, and what
                   \* its fan-out did, in order
  subAt,           \* per callback: nextEv when subscribeToJobProgress was called
  dispAt,          \* per callback: last event lastDispatched when its registration completed
  failures,        \* upstream commands rejected so far
  interleaved,     \* channels on which subscribing and detaching overlapped
  \* streaming gateway, one connection per callback number
  sseConnections,  \* the registry: jobId -> connection whose handle it holds
  cpc,             \* per connection: position of its request handler
  cjob,            \* per connection: req.params.jobId
  httpStatus,      \* per connection: status of the response, 0 before any
  frames,          \* per connection: frames written to the client
  lateWrites,      \* per connection: writes after end() or after the close
  ended,           \* per connection: calls of res.end()
  gone,            \* per connection: the transport closed, "close" was emitted
  heartbeat,       \* per connection: the interval timer is active
  beats,           \* per connection: ticks of the interval timer
  timers,          \* per connection: pending grace timeouts
  cleanupRuns,     \* per connection: runs of cleanup()
  \* upload and download routes, queue producer
  http,            \* the last request to /upload or /download and its response
  tempFiles,       \* files in shared/uploads/temp
  queued,          \* ids of the messages sent to the queue
  publishLogged,   \* publish failures logged by the upload route (line 82)
  uploads,         \* uploads handled so far
  mqConnection,    \* MessageQueueService.connection: a connection, 0 for null
  mqChannel,       \* MessageQueueService.channel: its connection, 0 for null
  \* queue producer and broker
  conns,           \* broker connections opened by amqp.connect, by number
  calls,           \* connect() calls suspended at an await (a bag)
  mqTimers,        \* pending setTimeout(reconnect, 5000)
  brokerUp,        \* the broker is reachable
  connectCalls,    \* calls of connect() by the application so far
  outages,         \* times the broker went away so far
  closeCalls       \* calls of close() by the application so far

relayVars == <<subscriptions, upstreamOpen, outQ, inQ, lstate, lchan, invoked,
               handleCalls, issued, cbErrors, parseErrors, nextEv,
               dropped, lastDispatched, subAt, dispAt, failures,
               interleaved>>

gatewayVars == <<sseConnections, cpc, cjob, httpStatus, frames, lateWrites,
                 ended, gone, heartbeat, beats, timers, cleanupRuns>>

producerVars == <<mqConnection, mqChannel, conns, calls, mqTimers, brokerUp,
                  connectCalls, outages, closeCalls>>

routeVars == <<http, tempFiles, queued, publishLogged, uploads, producerVars>>

vars == <<relayVars, gatewayVars, routeVars>>

\* ------------------------------------------------------------ JS helpers
Range(s) == {s[i] : i \in 1..Len(s)}

\* an add that puts the newcomer first
SetAddFirst(s, x) == IF x \in Range(s) THEN s ELSE <<x>> \o s

\* Set.prototype.add on an insertion-ordered Set
SetAdd(s, x) == IF x \in Range(s) THEN s ELSE Append(s, x)

\* Set.prototype.delete
SetDelete(s, x) == SelectSeq(s, LAMBDA y : y # x)

\* Map.prototype.has / set / delete
MapHas(m, k) == k \in DOMAIN m
MapSet(m, k, v) == [x \in (DOMAIN m) \cup {k} |-> IF x = k THEN v ELSE m[x]]
MapDelete(m, k) == [x \in (DOMAIN m) \ {k} |-> m[x]]

\* one channel name for every job
ChannelOfShared(jobId) == <<"conversion:">>

\* `conversion:${jobId}`
ChannelOf(jobId) == <<"conversion:">> \o jobId

\* line 10 of the stream route, line 10 of the download route
RECURSIVE Includes(_, _)
Includes(s, sub) ==
  IF Len(s) < Len(sub) THEN FALSE
  ELSE IF SubSeq(s, 1, Len(sub)) = sub THEN TRUE
  ELSE Includes(Tail(s), sub)

\* the test of line 10 without the search for ".."
InvalidIdNoDots(id) ==
  id = <<>> \/ Includes(id, <<"/">>)

InvalidId(id) ==
  id = <<>> \/ Includes(id, <<".", ".">>) \/ Includes(id, <<"/">>)

Channels == {ChannelOf(j) : j \in Jobs \cup {i \in JobIdInputs : ~InvalidId(i)}}

\* a parser that makes an object of every payload
JsonParseLenient(w) ==
  IF w = "null" THEN [ok |-> TRUE, isNull |-> TRUE, status |-> "none"]
  ELSE [ok |-> TRUE, isNull |-> FALSE, status |-> w]

\* JSON.parse of a payload: an object with a status, null, or a SyntaxError
JsonParse(w) ==
  IF w = "garbage" THEN [ok |-> FALSE, isNull |-> FALSE, status |-> "none"]
  ELSE IF w = "null" THEN [ok |-> TRUE, isNull |-> TRUE, status |-> "none"]
  ELSE [ok |-> TRUE, isNull |-> FALSE, status |-> w]

\* no request to the upload or download route yet
NoRequest ==
  [endpoint |-> "none", id |-> <<>>, status |-> 0, success |-> FALSE,
   fileId |-> <<>>, error |-> "none"]

\* ------------------------------------------------------------------ relay
Init ==
  /\ subscriptions = <<>>
  /\ upstreamOpen = {}
  /\ outQ = <<>>
  /\ inQ = <<>>
  /\ lstate = [l \in Ids |-> "new"]
  /\ lchan = [l \in Ids |-> <<>>]
  /\ invoked = [l \in Ids |-> <<>>]
  /\ handleCalls = [l \in Ids |-> 0]
  /\ issued = [k \in {"subscribe", "unsubscribe"} \X Channels |-> 0]
  /\ cbErrors = 0
  /\ parseErrors = 0
  /\ nextEv = 0
  /\ dropped = {}
  /\ lastDispatched = [ev |-> 0, ch |-> <<>>, log |-> <<>>]
  /\ subAt = [l \in Ids |-> 0]
  /\ dispAt = [l \in Ids |-> 0]
  /\ failures = 0
  /\ interleaved = {}
  /\ sseConnections = <<>>
  /\ cpc = [c \in Ids |-> "idle"]
  /\ cjob = [c \in Ids |-> <<>>]
  /\ httpStatus = [c \in Ids |-> 0]
  /\ frames = [c \in Ids |-> <<>>]
  /\ lateWrites = [c \in Ids |-> 0]
  /\ ended = [c \in Ids |-> 0]
  /\ gone = [c \in Ids |-> FALSE]
  /\ heartbeat = [c \in Ids |-> FALSE]
  /\ beats = [c \in Ids |-> 0]
  /\ timers = [c \in Ids |-> 0]
  /\ cleanupRuns = [c \in Ids |-> 0]
  /\ http = NoRequest
  /\ tempFiles = {}
  /\ queued = {}
  /\ publishLogged = 0
  /\ uploads = 0
  /\ mqConnection = 0
  /\ mqChannel = 0
  /\ conns = <<>>
  /\ calls = EmptyBag
  /\ mqTimers = 0
  /\ brokerUp = TRUE
  /\ connectCalls = 0
  /\ outages = 0
  /\ closeCalls = 0

Reply(op, ch, l, ok) ==
  [kind |-> "reply", op |-> op, ch |-> ch, l |-> l, ok |-> ok,
   wire |-> "none", ev |-> 0]

Message(ch, w, ev) ==
  [kind |-> "message", op |-> "none", ch |-> ch, l |-> 0, ok |-> TRUE,
   wire |-> w, ev |-> ev]

Command(op, ch, l) == [op |-> op, ch |-> ch, l |-> l]

\* addCallback with a replay of the channel's last event to the newcomer
addCallbackReplay(l, ch) ==
  /\ subscriptions' = [subscriptions EXCEPT ![ch] = SetAdd(@, l)]
  /\ lstate' = [lstate EXCEPT ![l] = "registered"]
  /\ dispAt' = [dispAt EXCEPT ![l] = lastDispatched.ev]
  /\ invoked' = IF lastDispatched.ch = ch
                THEN [invoked EXCEPT ![l] = Append(@, lastDispatched.ev)]
                ELSE invoked

\* line 65-69: the callback joins the channel's set and the handle is returned
addCallback(l, ch) ==
  /\ subscriptions' = [subscriptions EXCEPT ![ch] = SetAdd(@, l)]
  /\ lstate' = [lstate EXCEPT ![l] = "registered"]
  /\ dispAt' = [dispAt EXCEPT ![l] = lastDispatched.ev]
  /\ invoked' = invoked

\* lines 57-65 up to the await of line 62 (or to the end when the channel
\* already has an entry)
subscribeToJobProgress(l, jobId) ==
  LET channel == ChannelOf(jobId) IN
  /\ lstate[l] = "new"
  /\ lchan' = [lchan EXCEPT ![l] = channel]
  /\ subAt' = [subAt EXCEPT ![l] = nextEv]
  /\ interleaved' = IF \E k \in Ids : lchan[k] = channel /\ handleCalls[k] > 0
                    THEN interleaved \cup {channel} ELSE interleaved
  /\ IF ~MapHas(subscriptions, channel)
     THEN /\ subscriptions' = MapSet(subscriptions, channel, <<>>)
          /\ outQ' = Append(outQ, Command("subscribe", channel, l))
          /\ issued' = [issued EXCEPT ![<<"subscribe", channel>>] = @ + 1]
          /\ lstate' = [lstate EXCEPT ![l] = "subWait"]
          /\ UNCHANGED <<dispAt, invoked>>
     ELSE /\ addCallback(l, channel)
          /\ UNCHANGED <<outQ, issued>>
  /\ UNCHANGED <<upstreamOpen, inQ, handleCalls, cbErrors,
                 parseErrors, nextEv, dropped, lastDispatched, failures>>

\* lines 62-69 after the await: the reply to the subscribe command arrived
subscribeResumed(l) ==
  LET r == Head(inQ) IN
  /\ inQ # <<>>
  /\ r.kind = "reply" /\ r.op = "subscribe" /\ r.l = l
  /\ lstate[l] = "subWait"
  /\ inQ' = Tail(inQ)
  /\ IF ~r.ok
     THEN \* the await rejects: the call fails, the entry of line 61 stays
          /\ lstate' = [lstate EXCEPT ![l] = "rejected"]
          /\ UNCHANGED <<subscriptions, dispAt, invoked>>
     ELSE IF ~MapHas(subscriptions, r.ch)
     THEN \* this.subscriptions.get(channel) is undefined: TypeError
          /\ lstate' = [lstate EXCEPT ![l] = "typeError"]
          /\ UNCHANGED <<subscriptions, dispAt, invoked>>
     ELSE addCallback(l, r.ch)
  /\ UNCHANGED <<upstreamOpen, outQ, lchan, handleCalls, issued, cbErrors,
                 parseErrors, nextEv, dropped, lastDispatched, failures,
                 interleaved, subAt>>

\* unsubscribeCallback without the size test of line 77
unsubscribeCallbackEager(l) ==
  LET channel == lchan[l] IN
  /\ lstate[l] = "registered"
  /\ handleCalls' = [handleCalls EXCEPT ![l] = @ + 1]
  /\ interleaved' = IF \/ handleCalls[l] > 0
                       \/ \E k \in Ids : lchan[k] = channel /\ lstate[k] = "subWait"
                    THEN interleaved \cup {channel} ELSE interleaved
  /\ IF MapHas(subscriptions, channel)
     THEN /\ subscriptions' = [subscriptions EXCEPT
                                 ![channel] = SetDelete(@, l)]
          /\ outQ' = Append(outQ, Command("unsubscribe", channel, l))
          /\ issued' = [issued EXCEPT ![<<"unsubscribe", channel>>] = @ + 1]
     ELSE UNCHANGED <<subscriptions, outQ, issued>>
  /\ UNCHANGED <<upstreamOpen, inQ, lstate, lchan, invoked, cbErrors,
                 parseErrors, nextEv, dropped, lastDispatched, subAt, dispAt,
                 failures>>

\* lines 72-78 up to the await of line 78: the handle of callback l is invoked
unsubscribeCallback(l) ==
  LET channel == lchan[l] IN
  /\ lstate[l] = "registered"
  /\ handleCalls' = [handleCalls EXCEPT ![l] = @ + 1]
  /\ interleaved' = IF \/ handleCalls[l] > 0
                       \/ \E k \in Ids : lchan[k] = channel /\ lstate[k] = "subWait"
                    THEN interleaved \cup {channel} ELSE interleaved
  /\ IF MapHas(subscriptions, channel)
     THEN LET callbacks == SetDelete(subscriptions[channel], l) IN
          /\ subscriptions' = [subscriptions EXCEPT ![channel] = callbacks]
          /\ IF callbacks = <<>>
             THEN /\ outQ' = Append(outQ, Command("unsubscribe", channel, l))
                  /\ issued' = [issued EXCEPT ![<<"unsubscribe", channel>>] = @ + 1]
             ELSE UNCHANGED <<outQ, issued>>
     ELSE UNCHANGED <<subscriptions, outQ, issued>>
  /\ UNCHANGED <<upstreamOpen, inQ, lstate, lchan, invoked, cbErrors,
                 parseErrors, nextEv, dropped, lastDispatched, subAt, dispAt,
                 failures>>

\* lines 78-80 after the await: the reply to the unsubscribe command arrived
unsubscribeResumed ==
  LET r == Head(inQ) IN
  /\ inQ # <<>>
  /\ r.kind = "reply" /\ r.op = "unsubscribe"
  /\ inQ' = Tail(inQ)
  /\ IF r.ok
     THEN subscriptions' = MapDelete(subscriptions, r.ch)
     ELSE UNCHANGED subscriptions
  /\ UNCHANGED <<upstreamOpen, outQ, lstate, lchan, invoked, handleCalls,
                 issued, cbErrors, parseErrors, nextEv, dropped,
                 lastDispatched, subAt, dispAt, failures, interleaved>>

\* forEachCallback without the try/catch of lines 42-49: the first throw
\* leaves the loop
RECURSIVE forEachNoCatch(_, _)
forEachNoCatch(callbacks, raisers) ==
  IF callbacks = <<>>
  THEN [called |-> <<>>, caught |-> 0, thrown |-> FALSE]
  ELSE IF Head(callbacks) \in raisers
  THEN [called |-> <<Head(callbacks)>>, caught |-> 0, thrown |-> TRUE]
  ELSE LET rest == forEachNoCatch(Tail(callbacks), raisers) IN
       [called |-> <<Head(callbacks)>> \o rest.called,
        caught |-> rest.caught, thrown |-> rest.thrown]

\* lines 41-50: callbacks.forEach with the try/catch around each call.
\* called: the callbacks invoked, in order; caught: errors logged at line 45;
\* thrown: an error left the forEach.
RECURSIVE forEachCallback(_, _)
forEachCallback(callbacks, raisers) ==
  IF callbacks = <<>>
  THEN [called |-> <<>>, caught |-> 0, thrown |-> FALSE]
  ELSE LET rest == forEachCallback(Tail(callbacks), raisers) IN
       [called |-> <<Head(callbacks)>> \o rest.called,
        caught |-> rest.caught + (IF Head(callbacks) \in raisers THEN 1 ELSE 0),
        thrown |-> rest.thrown]

\* lines 35-55: one message of the bus is decoded and fanned out;
\* raisers are the callbacks that throw on this event
handleMessage(channel, message, ev, raisers) ==
  LET data == JsonParse(message)
      callbacks == IF MapHas(subscriptions, channel)
                   THEN subscriptions[channel] ELSE <<>>
      fan == forEachCallback(callbacks, raisers)
  IN
  /\ lastDispatched' =
       [ev |-> ev, ch |-> channel,
        log |-> IF data.ok
                THEN [i \in 1..Len(fan.called) |->
                        [op |-> "call", l |-> fan.called[i]]]
                ELSE <<>>]
  /\ IF ~data.ok
     THEN /\ parseErrors' = parseErrors + 1
          /\ UNCHANGED <<invoked, cbErrors>>
     ELSE /\ invoked' = [l \in Ids |-> IF l \in Range(fan.called)
                                        THEN Append(invoked[l], ev)
                                        ELSE invoked[l]]
          /\ cbErrors' = cbErrors + fan.caught
          /\ parseErrors' = parseErrors + (IF fan.thrown THEN 1 ELSE 0)
  /\ UNCHANGED <<subscriptions, upstreamOpen, outQ, lstate, lchan,
                 handleCalls, issued, nextEv, dropped, subAt, dispAt, failures,
                 interleaved>>

\* what the callbacks removed by the handles in hs leave in the log
RECURSIVE Removals(_)
Removals(hs) ==
  IF hs = {} THEN <<>>
  ELSE LET x == CHOOSE y \in hs : \A z \in hs : y <= z
       IN <<[op |-> "remove", l |-> x]>> \o Removals(hs \ {x})

\* a forEach over a copy of the set taken when the fan-out starts
RECURSIVE forEachSnapshot(_, _, _)
forEachSnapshot(todo, live, removes) ==
  IF todo = <<>> THEN [log |-> <<>>, live |-> live]
  ELSE LET h == Head(todo)
           gone_ == removes[h] \cap Range(live)
           rest == forEachSnapshot(Tail(todo),
                                   SelectSeq(live, LAMBDA x : x \notin gone_),
                                   removes)
       IN [log |-> <<[op |-> "call", l |-> h]>> \o Removals(gone_) \o rest.log,
           live |-> rest.live]

\* line 41: Set.prototype.forEach while callbacks invoke unsubscribe handles:
\* an entry deleted before its turn is not visited.  todo: the entries yet
\* to visit; live: the set as it is now; removes[h]: the callbacks whose
\* handles callback h invokes
RECURSIVE forEachLive(_, _, _)
forEachLive(todo, live, removes) ==
  IF todo = <<>> THEN [log |-> <<>>, live |-> live]
  ELSE LET h == Head(todo) IN
       IF h \notin Range(live) THEN forEachLive(Tail(todo), live, removes)
       ELSE LET gone_ == removes[h] \cap Range(live)
                rest == forEachLive(Tail(todo),
                                    SelectSeq(live, LAMBDA x : x \notin gone_),
                                    removes)
            IN [log |-> <<[op |-> "call", l |-> h]>> \o Removals(gone_)
                          \o rest.log,
                live |-> rest.live]

\* lines 35-55 with callbacks that invoke unsubscribe handles (lines 67-78)
\* while the fan-out runs
handleMessageLive(channel, message, ev, removes) ==
  LET data == JsonParse(message)
      callbacks == IF MapHas(subscriptions, channel)
                   THEN subscriptions[channel] ELSE <<>>
      fan == IF data.ok THEN forEachLive(callbacks, callbacks, removes)
             ELSE [log |-> <<>>, live |-> callbacks]
      called == {fan.log[i].l : i \in {k \in 1..Len(fan.log) : fan.log[k].op = "call"}}
      removals == {i \in 1..Len(fan.log) : fan.log[i].op = "remove"}
      removed == {fan.log[i].l : i \in removals}
      emptied == removals # {} /\ fan.live = <<>>
      last == fan.log[CHOOSE i \in removals : \A k \in removals : k <= i].l
  IN
  /\ lastDispatched' = [ev |-> ev, ch |-> channel, log |-> fan.log]
  /\ parseErrors' = parseErrors + (IF data.ok THEN 0 ELSE 1)
  /\ invoked' = [l \in Ids |-> IF l \in called THEN Append(invoked[l], ev)
                                ELSE invoked[l]]
  /\ handleCalls' = [l \in Ids |-> IF l \in removed THEN handleCalls[l] + 1
                                    ELSE handleCalls[l]]
  /\ subscriptions' = IF MapHas(subscriptions, channel)
                      THEN [subscriptions EXCEPT ![channel] = fan.live]
                      ELSE subscriptions
  /\ outQ' = IF emptied THEN Append(outQ, Command("unsubscribe", channel, last))
             ELSE outQ
  /\ issued' = IF emptied
               THEN [issued EXCEPT ![<<"unsubscribe", channel>>] = @ + 1]
               ELSE issued
  /\ interleaved' = IF /\ removed # {}
                       /\ \E k \in Ids : lchan[k] = channel /\ lstate[k] = "subWait"
                    THEN interleaved \cup {channel} ELSE interleaved
  /\ UNCHANGED <<upstreamOpen, lstate, lchan, cbErrors, nextEv, dropped,
                 subAt, dispAt, failures>>

\* ------------------------------------------------------------------- bus
\* the bus processes the oldest command and replies
BusProcess ==
  LET c == Head(outQ) IN
  /\ outQ # <<>>
  /\ outQ' = Tail(outQ)
  /\ upstreamOpen' = IF c.op = "subscribe" THEN upstreamOpen \cup {c.ch}
                     ELSE upstreamOpen \ {c.ch}
  /\ inQ' = Append(inQ, Reply(c.op, c.ch, c.l, TRUE))
  /\ UNCHANGED <<subscriptions, lstate, lchan, invoked, handleCalls, issued,
                 cbErrors, parseErrors, nextEv, dropped, lastDispatched,
                 subAt, dispAt, failures, interleaved>>
  /\ UNCHANGED <<gatewayVars, routeVars>>

\* the oldest command fails (connection trouble): its promise rejects
BusReject ==
  LET c == Head(outQ) IN
  /\ outQ # <<>>
  /\ failures < MaxFail
  /\ failures' = failures + 1
  /\ outQ' = Tail(outQ)
  /\ inQ' = Append(inQ, Reply(c.op, c.ch, c.l, FALSE))
  /\ UNCHANGED <<subscriptions, upstreamOpen, lstate, lchan, invoked,
                 handleCalls, issued, cbErrors, parseErrors, nextEv, dropped,
                 lastDispatched, subAt, dispAt, interleaved>>
  /\ UNCHANGED <<gatewayVars, routeVars>>

\* the worker publishes a status event; the bus forwards it to the relay
\* only while the relay's subscription for the channel is open
busPublish(jobId, w) ==
  LET channel == ChannelOf(jobId) IN
  /\ nextEv' = nextEv + 1
  /\ IF channel \in upstreamOpen
     THEN /\ inQ' = Append(inQ, Message(channel, w, nextEv + 1))
          /\ UNCHANGED dropped
     ELSE /\ dropped' = dropped \cup {nextEv + 1}
          /\ UNCHANGED inQ
  /\ UNCHANGED <<subscriptions, upstreamOpen, outQ, lstate, lchan, invoked,
                 handleCalls, issued, cbErrors, parseErrors,
                 lastDispatched, subAt, dispAt, failures, interleaved>>
  /\ UNCHANGED <<gatewayVars, routeVars>>

BusPublish(jobId, w) ==
  /\ nextEv < MaxEvents
  /\ busPublish(jobId, w)

\* as BusPublish, for the runs in which events follow one another
BusPublishMore(jobId, w) ==
  /\ nextEv < MaxFanEvents
  /\ busPublish(jobId, w)

\* ------------------------------------------- relay driven by its callers
\* callbacks are interchangeable: they are handed to the relay in the order
\* of their numbers, and the first one observes job "a"
Subscribe(l, jobId) ==
  /\ \A k \in Ids : k < l => lstate[k] # "new"
  /\ jobId = <<"a">> \/ \E k \in Ids : lchan[k] = ChannelOf(<<"a">>)
  /\ subscribeToJobProgress(l, jobId)
  /\ UNCHANGED <<gatewayVars, routeVars>>

SubscribeDone(l) ==
  /\ subscribeResumed(l)
  /\ UNCHANGED <<gatewayVars, routeVars>>

RECURSIVE RepeatsUsed(_)
RepeatsUsed(S) ==
  IF S = {} THEN 0
  ELSE LET l == CHOOSE x \in S : TRUE IN
       (IF handleCalls[l] > 1 THEN handleCalls[l] - 1 ELSE 0)
       + RepeatsUsed(S \ {l})

\* a handle is invoked; MaxRepeat bounds the invocations after the first
InvokeHandle(l) ==
  /\ handleCalls[l] = 0 \/ RepeatsUsed(Ids) < MaxRepeat
  /\ unsubscribeCallback(l)
  /\ UNCHANGED <<gatewayVars, routeVars>>

UnsubscribeDone ==
  /\ unsubscribeResumed
  /\ UNCHANGED <<gatewayVars, routeVars>>

\* a message reaches the relay; any of the channel's callbacks may throw
Deliver ==
  /\ inQ # <<>>
  /\ Head(inQ).kind = "message"
  /\ inQ' = Tail(inQ)
  /\ \E raisers \in SUBSET Range(IF MapHas(subscriptions, Head(inQ).ch)
                                 THEN subscriptions[Head(inQ).ch] ELSE <<>>) :
       handleMessage(Head(inQ).ch, Head(inQ).wire, Head(inQ).ev, raisers)
  /\ UNCHANGED <<gatewayVars, routeVars>>

NextRelay ==
  \/ \E l \in Ids, j \in Jobs : Subscribe(l, j)
  \/ \E l \in Ids : SubscribeDone(l)
  \/ \E l \in Ids : InvokeHandle(l)
  \/ UnsubscribeDone
  \/ Deliver
  \/ BusProcess
  \/ BusReject
  \/ \E j \in Jobs, w \in RelayWire : BusPublish(j, w)

SpecRelay == Init /\ [][NextRelay]_vars

\* what the callbacks of a fan-out may do: each invokes the handles of some
\* callbacks of the channel, no handle being invoked by two of them
Removers(callbacks) ==
  {f \in [Range(callbacks) -> SUBSET Range(callbacks)] :
     \A h, k \in Range(callbacks) : h # k => f[h] \cap f[k] = {}}

\* a message reaches the relay; its callbacks may invoke unsubscribe handles
DeliverLive ==
  /\ inQ # <<>>
  /\ Head(inQ).kind = "message"
  /\ inQ' = Tail(inQ)
  /\ \E removes \in Removers(IF MapHas(subscriptions, Head(inQ).ch)
                              THEN subscriptions[Head(inQ).ch] ELSE <<>>) :
       handleMessageLive(Head(inQ).ch, Head(inQ).wire, Head(inQ).ev, removes)
  /\ UNCHANGED <<gatewayVars, routeVars>>

\* the relay with callbacks that detach during a fan-out, observing one job
\* through several events
NextFanOut ==
  \/ \E l \in Ids : Subscribe(l, <<"a">>)
  \/ \E l \in Ids : SubscribeDone(l)
  \/ \E l \in Ids : InvokeHandle(l)
  \/ UnsubscribeDone
  \/ DeliverLive
  \/ BusProcess
  \/ \E w \in RelayWire : BusPublishMore(<<"a">>, w)

SpecFanOut == Init /\ [][NextFanOut]_vars

\* ----------------------------------------------------- relay properties
Listeners(ch) == IF MapHas(subscriptions, ch) THEN Range(subscriptions[ch]) ELSE {}

\* no command for the channel is on its way to the bus, no reply on its way back
ChannelQuiet(ch) ==
  /\ \A i \in 1..Len(outQ) : outQ[i].ch # ch
  /\ \A i \in 1..Len(inQ) : inQ[i].kind = "reply" => inQ[i].ch # ch

\* C1: whenever no upstream call for a channel is in flight, the bus
\* subscription of the channel is open iff its listener set is non-empty
UpstreamIffListeners ==
  \A ch \in Channels :
    ChannelQuiet(ch) => ((ch \in upstreamOpen) <=> (Listeners(ch) # {}))

\* the callbacks whose registration on ch completed, and those that detached
Registered(ch) == {l \in Ids : lchan[l] = ch /\ lstate[l] = "registered"}
Detached(ch) == {l \in Registered(ch) : handleCalls[l] > 0}

\* C2: when the callbacks of a channel first all subscribe and then all
\* detach, one subscribe command is issued for the channel, and one
\* unsubscribe command, not before the last of them has detached
SubscribeOnceUnsubscribeOnce ==
  \A ch \in Channels :
    (ch \notin interleaved /\ \E l \in Ids : lchan[l] = ch) =>
      /\ issued[<<"subscribe", ch>>] = 1
      /\ issued[<<"unsubscribe", ch>>] =
           (IF Registered(ch) # {} /\ Detached(ch) = Registered(ch)
            THEN 1 ELSE 0)

\* two callbacks subscribed to one channel, then both detached, and the
\* unsubscribe command was answered
SubscribeOnceWitness ==
  \E ch \in Channels :
    /\ ch \notin interleaved
    /\ Cardinality(Registered(ch)) >= 2
    /\ Detached(ch) = Registered(ch)
    /\ ChannelQuiet(ch)
    /\ issued[<<"unsubscribe", ch>>] = 1

\* C3: once all calls have completed, every callback that subscribed and
\* did not invoke its handle is in its channel's set, the channel is open
\* upstream when its set is non-empty, and no call failed on a missing entry
NoLostTransition ==
  (failures = 0 /\ \A ch \in Channels : ChannelQuiet(ch)) =>
     /\ \A l \in Ids :
          (lstate[l] # "new" /\ handleCalls[l] = 0) => l \in Listeners(lchan[l])
     /\ \A ch \in Channels : Listeners(ch) # {} => ch \in upstreamOpen
     /\ \A l \in Ids : lstate[l] # "typeError"

\* the step in which handleMessage fans out a message that decodes
FanOutStep ==
  /\ inQ # <<>>
  /\ Head(inQ).kind = "message"
  /\ JsonParse(Head(inQ).wire).ok
  /\ inQ' = Tail(inQ)

\* C4: a fan-out invokes every callback of the channel once with the event,
\* whichever of them throw, and the throws end in the per-callback catch
FanOutIsolation ==
  [][FanOutStep =>
       /\ \A l \in Listeners(Head(inQ).ch) :
            invoked'[l] = Append(invoked[l], Head(inQ).ev)
       /\ parseErrors' = parseErrors]_vars

\* both callbacks of a channel threw on the first event, and both got it
FanOutWitness ==
  \E l, k \in Ids :
    /\ l # k
    /\ lchan[l] = lchan[k]
    /\ invoked[l] = <<1>> /\ invoked[k] = <<1>>
    /\ cbErrors = 2

\* C10 as claimed: no callback is invoked with an event that was published
\* before it subscribed
NoEarlierPublishedEvent ==
  \A l \in Ids : \A i \in 1..Len(invoked[l]) : invoked[l][i] > subAt[l]

\* C10: no callback is invoked with an event the relay dispatched before its
\* registration completed, nor with one published while the channel was not
\* open upstream
NoReplay ==
  \A l \in Ids : \A i \in 1..Len(invoked[l]) :
    /\ invoked[l][i] > dispAt[l]
    /\ invoked[l][i] \notin dropped

\* a callback registered after an event was dispatched or dropped, and was
\* not invoked with it
NoReplayWitness ==
  \E l \in Ids :
    /\ lstate[l] = "registered"
    /\ subAt[l] = 1
    /\ dispAt[l] = 1 \/ 1 \in dropped
    /\ invoked[l] = <<>>
    /\ inQ = <<>> /\ outQ = <<>>


\* ------------------------------------------------------- streaming gateway
\* res.write(frame): nothing reaches the client once end() was called or the
\* transport closed
Written(c, frame) ==
  IF ended[c] > 0 \/ gone[c] THEN frames[c] ELSE Append(frames[c], frame)

Late(c) == IF ended[c] > 0 \/ gone[c] THEN lateWrites[c] + 1 ELSE lateWrites[c]

\* lines 49-78: the rest of the handler once subscribeToJobProgress returned
handlerTail(c, jobId) ==
  /\ sseConnections' = MapSet(sseConnections, jobId, c)
  /\ heartbeat' = [heartbeat EXCEPT ![c] = TRUE]
  /\ cpc' = [cpc EXCEPT ![c] = "open"]

\* lines 7-29: the request arrives
StreamRequest(c, jobId) ==
  /\ cpc[c] = "idle"
  /\ \A k \in Ids : k < c => cpc[k] # "idle"
  /\ cjob' = [cjob EXCEPT ![c] = jobId]
  /\ IF InvalidId(jobId)
     THEN /\ httpStatus' = [httpStatus EXCEPT ![c] = 400]
          /\ cpc' = [cpc EXCEPT ![c] = "rejected"]
          /\ UNCHANGED <<relayVars, sseConnections, frames, heartbeat>>
     ELSE /\ httpStatus' = [httpStatus EXCEPT ![c] = 200]
          /\ frames' = [frames EXCEPT ![c] = Append(@, "connected")]
          /\ subscribeToJobProgress(c, jobId)
          /\ IF lstate'[c] = "registered"
             THEN handlerTail(c, jobId)
             ELSE /\ cpc' = [cpc EXCEPT ![c] = "subscribing"]
                  /\ UNCHANGED <<sseConnections, heartbeat>>
  /\ UNCHANGED <<lateWrites, ended, gone, beats, timers, cleanupRuns,
                 routeVars>>

\* line 29 after the await, then lines 49-78; a rejected await ends the handler
StreamResumed(c) ==
  /\ cpc[c] = "subscribing"
  /\ subscribeResumed(c)
  /\ IF lstate'[c] = "registered"
     THEN handlerTail(c, cjob[c])
     ELSE /\ cpc' = [cpc EXCEPT ![c] = "aborted"]
          /\ UNCHANGED <<sseConnections, heartbeat>>
  /\ UNCHANGED <<cjob, httpStatus, frames, lateWrites, ended, gone, beats,
                 timers, cleanupRuns, routeVars>>

\* the callback writing the close frame with the terminal data frame,
\* before the timeout
StreamDeliverCloseFirst ==
  LET m == Head(inQ)
      data == JsonParse(m.wire)
      callbacks == IF MapHas(subscriptions, m.ch)
                   THEN subscriptions[m.ch] ELSE <<>>
      raisers == IF data.isNull THEN Range(callbacks) ELSE {}
      called == IF data.ok THEN Range(forEachCallback(callbacks, raisers).called)
                ELSE {}
      terminal == data.status \in {"completed", "failed"}
  IN
  /\ inQ # <<>>
  /\ m.kind = "message"
  /\ inQ' = Tail(inQ)
  /\ handleMessage(m.ch, m.wire, m.ev, raisers)
  /\ frames' = [c \in Ids |->
                  IF c \notin called \/ ended[c] > 0 \/ gone[c] THEN frames[c]
                  ELSE IF terminal THEN frames[c] \o <<"data", "close">>
                  ELSE Append(frames[c], "data")]
  /\ lateWrites' = [c \in Ids |-> IF c \in called THEN Late(c)
                                  ELSE lateWrites[c]]
  /\ timers' = [c \in Ids |-> IF c \in called /\ terminal
                              THEN timers[c] + 1 ELSE timers[c]]
  /\ UNCHANGED <<sseConnections, cpc, cjob, httpStatus, ended, gone,
                 heartbeat, beats, cleanupRuns, routeVars>>

\* lines 31-46: the callbacks of a fan-out write the data frame and arm the
\* grace timeout on a terminal status; data.status of null throws
StreamDeliver ==
  LET m == Head(inQ)
      data == JsonParse(m.wire)
      callbacks == IF MapHas(subscriptions, m.ch)
                   THEN subscriptions[m.ch] ELSE <<>>
      raisers == IF data.isNull THEN Range(callbacks) ELSE {}
      called == IF data.ok THEN Range(forEachCallback(callbacks, raisers).called)
                ELSE {}
  IN
  /\ inQ # <<>>
  /\ m.kind = "message"
  /\ inQ' = Tail(inQ)
  /\ handleMessage(m.ch, m.wire, m.ev, raisers)
  /\ frames' = [c \in Ids |-> IF c \in called THEN Written(c, "data")
                              ELSE frames[c]]
  /\ lateWrites' = [c \in Ids |-> IF c \in called THEN Late(c)
                                  ELSE lateWrites[c]]
  /\ timers' = [c \in Ids |->
                  IF c \in called /\ data.status \in {"completed", "failed"}
                  THEN timers[c] + 1 ELSE timers[c]]
  /\ UNCHANGED <<sseConnections, cpc, cjob, httpStatus, ended, gone,
                 heartbeat, beats, cleanupRuns, routeVars>>

\* cleanup without the delete of line 70
cleanupNoDelete(c) ==
  /\ IF MapHas(sseConnections, cjob[c])
     THEN /\ unsubscribeCallback(sseConnections[cjob[c]])
          /\ UNCHANGED sseConnections
     ELSE UNCHANGED <<relayVars, sseConnections>>
  /\ heartbeat' = [heartbeat EXCEPT ![c] = FALSE]
  /\ cleanupRuns' = [cleanupRuns EXCEPT ![c] = @ + 1]

\* lines 64-73
cleanup(c) ==
  /\ IF MapHas(sseConnections, cjob[c])
     THEN /\ unsubscribeCallback(sseConnections[cjob[c]])
          /\ sseConnections' = MapDelete(sseConnections, cjob[c])
     ELSE UNCHANGED <<relayVars, sseConnections>>
  /\ heartbeat' = [heartbeat EXCEPT ![c] = FALSE]
  /\ cleanupRuns' = [cleanupRuns EXCEPT ![c] = @ + 1]

\* lines 36-44: a grace timeout fires
GraceTimerFire(c) ==
  /\ timers[c] > 0
  /\ timers' = [timers EXCEPT ![c] = @ - 1]
  /\ frames' = [frames EXCEPT ![c] = Written(c, "close")]
  /\ lateWrites' = [lateWrites EXCEPT ![c] = Late(c)]
  /\ ended' = [ended EXCEPT ![c] = @ + 1]
  /\ cleanup(c)
  /\ UNCHANGED <<cpc, cjob, httpStatus, gone, beats, routeVars>>

\* lines 52-62: the interval timer ticks
HeartbeatTick(c) ==
  /\ heartbeat[c]
  /\ beats[c] < MaxBeats
  /\ beats' = [beats EXCEPT ![c] = @ + 1]
  /\ IF ended[c] = 0
     THEN /\ frames' = [frames EXCEPT ![c] = Written(c, "heartbeat")]
          /\ lateWrites' = [lateWrites EXCEPT ![c] = Late(c)]
          /\ UNCHANGED heartbeat
     ELSE /\ heartbeat' = [heartbeat EXCEPT ![c] = FALSE]
          /\ UNCHANGED <<frames, lateWrites>>
  /\ UNCHANGED <<relayVars, sseConnections, cpc, cjob, httpStatus, ended,
                 gone, timers, cleanupRuns, routeVars>>

\* the transport of a connection closes (the client left, or the response
\* was ended): req emits "close"; lines 75-78 run if the handler got that far
TransportClose(c) ==
  /\ cpc[c] \in {"subscribing", "open", "aborted"}
  /\ ~gone[c]
  /\ gone' = [gone EXCEPT ![c] = TRUE]
  /\ IF cpc[c] = "open"
     THEN cleanup(c)
     ELSE UNCHANGED <<relayVars, sseConnections, heartbeat, cleanupRuns>>
  /\ UNCHANGED <<cpc, cjob, httpStatus, frames, lateWrites, ended, beats,
                 timers, routeVars>>

\* identifiers the gateway is exercised with: two jobs and a rejected one
GatewayInputs == Jobs \cup {<<".", ".">>}

NextGateway ==
  \/ \E c \in Ids, j \in GatewayInputs : StreamRequest(c, j)
  \/ \E c \in Ids : StreamResumed(c)
  \/ StreamDeliver
  \/ \E c \in Ids : GraceTimerFire(c)
  \/ \E c \in Ids : HeartbeatTick(c)
  \/ \E c \in Ids : TransportClose(c)
  \/ UnsubscribeDone
  \/ BusProcess
  \/ BusReject
  \/ \E j \in Jobs, w \in GatewayWire : BusPublish(j, w)

SpecGateway == Init /\ [][NextGateway]_vars

\* the gateway streaming one job through several events
NextTerminal ==
  \/ \E c \in Ids : StreamRequest(c, <<"a">>)
  \/ \E c \in Ids : StreamResumed(c)
  \/ StreamDeliver
  \/ \E c \in Ids : GraceTimerFire(c)
  \/ \E c \in Ids : TransportClose(c)
  \/ UnsubscribeDone
  \/ BusProcess
  \/ \E w \in GatewayWire : BusPublishMore(<<"a">>, w)

SpecTerminal == Init /\ [][NextTerminal]_vars

\* -------------------------------------------------- gateway properties
\* c is the only connection that asked for its job
Solo(c) ==
  \A d \in Ids : (d # c /\ cpc[d] \in {"subscribing", "open", "aborted"})
                   => cjob[d] # cjob[c]

Count(seq, x) == Cardinality({i \in 1..Len(seq) : seq[i] = x})

\* C5: for the only connection of a job, cleanup calls the unsubscribe handle
\* once and cancels the heartbeat, and a further run of cleanup changes nothing
TeardownIdempotent ==
  [][\A c \in Ids :
       /\ (Solo(c) /\ cleanupRuns[c] >= 1)' =>
            (handleCalls[c] = 1 /\ ~heartbeat[c])'
       /\ (Solo(c) /\ cleanupRuns[c] >= 1 /\ cleanupRuns'[c] > cleanupRuns[c])
            => UNCHANGED <<subscriptions, outQ, issued, handleCalls,
                           sseConnections, heartbeat>>]_vars

\* cleanup ran from the grace timeout and from the close handler
TeardownWitness ==
  \E c \in Ids :
    Solo(c) /\ cleanupRuns[c] = 2 /\ gone[c] /\ ended[c] = 1

\* C6: when one of two connections on a job has been torn down and the other
\* has not, the other's callback is still registered with the relay
DisconnectCancelsOnlyItself ==
  \A c, d \in Ids :
    (/\ c # d
     /\ cpc[c] = "open" /\ cpc[d] = "open"
     /\ cjob[c] = cjob[d]
     /\ cleanupRuns[c] > 0
     /\ cleanupRuns[d] = 0)
    => d \in Listeners(ChannelOf(cjob[d]))

\* C7: once the transport of a connection has closed and nothing is in
\* flight for its channel, its callback is unregistered, its heartbeat is
\* cancelled and its record is released
ClosedConnectionReleased ==
  \A c \in Ids :
    (/\ Solo(c)
     /\ cpc[c] \in {"subscribing", "open", "aborted"}
     /\ gone[c]
     /\ ChannelQuiet(ChannelOf(cjob[c])))
    => /\ c \notin Listeners(ChannelOf(cjob[c]))
       /\ ~heartbeat[c]
       /\ ~MapHas(sseConnections, cjob[c])

\* C8 as claimed: while the grace timeout of a connection is pending, the
\* close frame has already been written to it
CloseFrameBeforeGraceDelay ==
  \A c \in Ids :
    (timers[c] > 0 /\ ended[c] = 0 /\ ~gone[c]) => Count(frames[c], "close") > 0

\* C8: the grace timeout is armed by the delivery of a terminal event, which
\* writes the data frame and no close frame; the close frame is written when
\* the timeout fires, in the step that ends the response and runs cleanup
CloseFrameAfterGraceDelay ==
  [][\A c \in Ids :
       /\ timers'[c] > timers[c] =>
            /\ Head(inQ).wire \in {"completed", "failed"}
            /\ Count(frames'[c], "close") = Count(frames[c], "close")
            /\ (ended[c] = 0 /\ ~gone[c]) => frames'[c] = Append(frames[c], "data")
       /\ Count(frames'[c], "close") > Count(frames[c], "close") =>
            /\ timers'[c] = timers[c] - 1
            /\ ended'[c] = ended[c] + 1
            /\ cleanupRuns'[c] = cleanupRuns[c] + 1]_vars

\* a connection got the terminal data frame, then, from the timeout, the
\* close frame
CloseFrameWitness ==
  \E c \in Ids :
    /\ frames[c] = <<"connected", "data", "close">>
    /\ ended[c] = 1
    /\ timers[c] = 0

\* ------------------------------------------ upload and download routes
\* the last portion of a path, trailing slashes dropped
RECURSIVE DropTrailingSlashes(_)
DropTrailingSlashes(p) ==
  IF p # <<>> /\ p[Len(p)] = "/"
  THEN DropTrailingSlashes(SubSeq(p, 1, Len(p) - 1)) ELSE p

RECURSIVE AfterLastSlash(_)
AfterLastSlash(p) ==
  IF \E i \in 1..Len(p) : p[i] = "/" THEN AfterLastSlash(Tail(p)) ELSE p

LastPortion(p) == AfterLastSlash(DropTrailingSlashes(p))

\* path.extname: from the last dot of the last portion, unless the portion
\* has no dot, starts with its only dot, or is ".."
Extname(p) ==
  LET b == LastPortion(p)
      dots == {i \in 1..Len(b) : b[i] = "."}
      d == IF dots = {} THEN 0 ELSE CHOOSE i \in dots : \A j \in dots : j <= i
  IN IF d <= 1 \/ b = <<".", ".">> THEN <<>> ELSE SubSeq(b, d, Len(b))

\* path.basename(p, ext)
Basename(p, ext) ==
  LET b == LastPortion(p) IN
  IF ext # <<>> /\ ext = p THEN <<>>
  ELSE IF /\ ext # <<>>
          /\ Len(ext) < Len(b)
          /\ SubSeq(b, Len(b) - Len(ext) + 1, Len(b)) = ext
  THEN SubSeq(b, 1, Len(b) - Len(ext))
  ELSE b

\* crypto.randomUUID(): a fresh string of hexadecimal digits at every call,
\* here k digits "a" at the k-th call
randomUUID(k) == [i \in 1..k |-> "a"]

JsonExt == <<".", "j", "s", "o", "n">>

\* upload.js lines 27-36: the fileFilter of multer
fileFilter(mimeJson, originalname) ==
  mimeJson \/ Extname(originalname) = JsonExt

\* ------------------------------------------------------- queue producer
\* a broker connection: open or not, the "close" handlers installed on it
\* (line 28), and whether its "close" event is still to be emitted
Conn(up, handlers, pending) ==
  [up |-> up, closeHandlers |-> handlers, closePending |-> pending]

\* a connect() call suspended at the await of amqp.connect (line 15),
\* createChannel (line 16) or assertQueue (line 18); k is the connection
\* the awaited call was made on
Call(pc, k) == [pc |-> pc, k |-> k]

\* the number amqp.connect gives a new connection: the first one free
NewConn ==
  CHOOSE n \in 1..(Cardinality(DOMAIN conns) + 1) :
    n \notin DOMAIN conns /\ \A m \in 1..(n - 1) : m \in DOMAIN conns

\* connections that are closed, have emitted "close" and are referenced
\* neither by the service nor by a suspended call are garbage
Collect(cs, connection, channel, cl) ==
  LET held == {connection, channel} \cup {c.k : c \in BagToSet(cl)}
      keep == {k \in DOMAIN cs : cs[k].up \/ cs[k].closePending \/ k \in held}
  IN [k \in keep |-> cs[k]]

\* the producer's state after a step
ProducerStep(connection, channel, cs, cl, timers_) ==
  /\ mqConnection' = connection
  /\ mqChannel' = channel
  /\ calls' = cl
  /\ mqTimers' = timers_
  /\ conns' = Collect(cs, connection, channel, cl)

\* the catch of connect() without the setTimeout of line 34
setTimeoutNever(t) == t

\* line 34: setTimeout(() => this.reconnect(), 5000)
setTimeoutReconnect(t) == t + 1

\* lines 32-35: an await of connect() rejected, or line 24 threw
connectCatch(c) ==
  ProducerStep(mqConnection, mqChannel, conns, calls (-) SetToBag({c}),
               setTimeoutReconnect(mqTimers))

\* lines 12-15 up to the await: amqp.connect is called
connect(n) == calls (+) [c \in {Call("connect", 0)} |-> n]

\* line 15 after the await, then line 16 up to its await; the broker
\* refuses a connection when it is away or has MaxConns of them
amqpConnectSettled(c) ==
  /\ c.pc = "connect"
  /\ IF brokerUp /\ Cardinality({k \in DOMAIN conns : conns[k].up}) < MaxConns
     THEN LET n == NewConn IN
          ProducerStep(n, mqChannel, MapSet(conns, n, Conn(TRUE, 0, FALSE)),
                       (calls (-) SetToBag({c}))
                          (+) SetToBag({Call("createChannel", n)}),
                       mqTimers)
     ELSE connectCatch(c)

\* line 16 after the await, then line 18 up to its await
createChannelSettled(c) ==
  /\ c.pc = "createChannel"
  /\ IF conns[c.k].up
     THEN ProducerStep(mqConnection, c.k, conns,
                       (calls (-) SetToBag({c}))
                          (+) SetToBag({Call("assertQueue", c.k)}),
                       mqTimers)
     ELSE connectCatch(c)

\* line 18 after the await, then lines 22-31: the handlers are installed on
\* this.connection as it is now; on null line 24 throws a TypeError
assertQueueSettled(c) ==
  /\ c.pc = "assertQueue"
  /\ IF conns[c.k].up /\ mqConnection # 0
     THEN ProducerStep(mqConnection, mqChannel,
                       [conns EXCEPT ![mqConnection].closeHandlers = @ + 1],
                       calls (-) SetToBag({c}), mqTimers)
     ELSE connectCatch(c)

\* line 16: the broker refuses the channel on a connection that stays open
createChannelRejected(c) ==
  /\ c.pc = "createChannel"
  /\ conns[c.k].up
  /\ connectCatch(c)

\* line 18: the broker refuses the queue declaration, the connection stays
\* open
assertQueueRejected(c) ==
  /\ c.pc = "assertQueue"
  /\ conns[c.k].up
  /\ connectCatch(c)

\* lines 71-73 up to the await, or lines 75-76 when there is no channel
close ==
  IF mqChannel # 0
  THEN ProducerStep(mqConnection, mqChannel, conns,
                    calls (+) SetToBag({Call("channelClose", mqChannel)}),
                    mqTimers)
  ELSE IF mqConnection # 0
  THEN ProducerStep(mqConnection, mqChannel, conns,
                    calls (+) SetToBag({Call("connectionClose", mqConnection)}),
                    mqTimers)
  ELSE ProducerStep(mqConnection, mqChannel, conns, calls, mqTimers)

\* line 73 after the await, then lines 75-76 up to the await; closing the
\* channel of a lost connection rejects and ends close()
channelCloseSettled(c) ==
  /\ c.pc = "channelClose"
  /\ IF conns[c.k].up /\ mqConnection # 0
     THEN ProducerStep(mqConnection, mqChannel, conns,
                       (calls (-) SetToBag({c}))
                          (+) SetToBag({Call("connectionClose", mqConnection)}),
                       mqTimers)
     ELSE ProducerStep(mqConnection, mqChannel, conns,
                       calls (-) SetToBag({c}), mqTimers)

\* line 76 after the await: the connection is closed and will emit "close"
connectionCloseSettled(c) ==
  /\ c.pc = "connectionClose"
  /\ ProducerStep(mqConnection, mqChannel,
                  IF conns[c.k].up
                  THEN [conns EXCEPT ![c.k] = Conn(FALSE, @.closeHandlers, TRUE)]
                  ELSE conns,
                  calls (-) SetToBag({c}), mqTimers)

\* lines 38-42 up to the await of amqp.connect, run by n callers in a row
reconnect(cs, n, timers_) ==
  ProducerStep(0, 0, cs, connect(n), timers_)

\* the timeout of line 34 fires
reconnectTimer ==
  /\ mqTimers > 0
  /\ reconnect(conns, 1, mqTimers - 1)

\* connection k emits "close": every handler of line 28 calls reconnect()
connectionClose(k) ==
  /\ k \in DOMAIN conns
  /\ conns[k].closePending
  /\ LET cs == [conns EXCEPT ![k].closePending = FALSE] IN
     IF conns[k].closeHandlers > 0
     THEN reconnect(cs, conns[k].closeHandlers, mqTimers)
     ELSE ProducerStep(mqConnection, mqChannel, cs, calls, mqTimers)

\* a publishToQueue that looks at the result of sendToQueue only
publishToQueueUnchecked(sent) == sent

\* message-queue.js lines 45-69: TRUE when the message was sent; sent is
\* the result of channel.sendToQueue, which throws on a closed channel
publishToQueue(sent) ==
  mqChannel # 0 /\ conns[mqChannel].up /\ sent

\* upload.js lines 9-20: multer stores the part under its generated name
diskStorage(files, filename) == files \cup {filename}

\* the catch of line 52 without the fs.remove of line 53
fsRemoveSkipped(files, filename) == files

\* upload.js line 53: fs.remove(filePath)
fsRemove(files, filename) == files \ {filename}

\* a handler that answers 500 when the publish failed
uploadedOrFailed(published) ==
  IF published
  THEN [status |-> 200, success |-> TRUE, error |-> "none"]
  ELSE [status |-> 500, success |-> FALSE, error |-> "Failed to upload file"]

\* upload.js lines 78-96: the catch of line 82 logs and the handler answers
\* success whether or not the message was published
uploaded(published) ==
  [status |-> 200, success |-> TRUE, error |-> "none"]

\* upload.js lines 9-20, 39-96 and 111-125: one upload through multer and
\* the route
UploadRequest(originalname, hasFile, tooBig, mimeJson, jsonValid, sent) ==
  LET filename == randomUUID(uploads + 1) \o Extname(originalname)
      fileId == Basename(filename, Extname(filename))
      Response(st, ok, id, err) ==
        [endpoint |-> "upload", id |-> originalname, status |-> st,
         success |-> ok, fileId |-> id, error |-> err]
  IN
  /\ uploads < MaxUploads
  /\ uploads' = uploads + 1
  /\ IF ~hasFile
     THEN \* line 41: no file field in the form
          /\ http' = Response(400, FALSE, <<>>, "No file uploaded")
          /\ UNCHANGED <<tempFiles, queued, publishLogged>>
     ELSE IF ~fileFilter(mimeJson, originalname)
     THEN \* line 34, then the error handler of line 121
          /\ http' = Response(500, FALSE, <<>>, "Only JSON files are allowed")
          /\ UNCHANGED <<tempFiles, queued, publishLogged>>
     ELSE IF tooBig
     THEN \* LIMIT_FILE_SIZE, line 113: multer removed the partial file
          /\ http' = Response(400, FALSE, <<>>, "File size exceeds 10MB limit")
          /\ UNCHANGED <<tempFiles, queued, publishLogged>>
     ELSE IF ~jsonValid
     THEN \* lines 52-57
          /\ http' = Response(400, FALSE, <<>>, "Invalid JSON file")
          /\ tempFiles' = fsRemove(diskStorage(tempFiles, filename), filename)
          /\ UNCHANGED <<queued, publishLogged>>
     ELSE \* lines 60-96
          /\ tempFiles' = diskStorage(tempFiles, filename)
          /\ IF publishToQueue(sent)
             THEN /\ queued' = queued \cup {fileId}
                  /\ UNCHANGED publishLogged
             ELSE /\ publishLogged' = publishLogged + 1
                  /\ UNCHANGED queued
          /\ LET r == uploaded(publishToQueue(sent)) IN
             http' = Response(r.status, r.success, fileId, r.error)
  /\ UNCHANGED <<producerVars, relayVars, gatewayVars>>

\* download.js lines 6-60: exists is fs.pathExists of the output file
DownloadRequest(fileId, exists) ==
  /\ http' = [endpoint |-> "download", id |-> fileId,
              status |-> IF InvalidId(fileId) THEN 400
                         ELSE IF ~exists THEN 404 ELSE 200,
              success |-> ~InvalidId(fileId) /\ exists,
              fileId |-> fileId,
              error |-> IF InvalidId(fileId) THEN "Invalid file ID"
                        ELSE IF ~exists THEN "File not found" ELSE "none"]
  /\ UNCHANGED <<tempFiles, queued, publishLogged, uploads, producerVars,
                 relayVars, gatewayVars>>

\* message-queue.js lines 12-31: connect() runs to its end while the broker
\* is reachable
MqConnect ==
  /\ mqConnection = 0
  /\ calls = EmptyBag
  /\ LET n == NewConn IN
     ProducerStep(n, n, MapSet(conns, n, Conn(TRUE, 1, FALSE)), calls, mqTimers)
  /\ UNCHANGED <<http, tempFiles, queued, publishLogged, uploads, brokerUp,
                 connectCalls, outages, closeCalls,
                 relayVars, gatewayVars>>

\* message-queue.js lines 28-31 and 38-41: the connection closes and
\* reconnect() forgets it
MqClosed ==
  /\ mqConnection # 0
  /\ calls = EmptyBag
  /\ ProducerStep(0, 0, [conns EXCEPT ![mqConnection] = Conn(FALSE, 1, FALSE)],
                  calls, mqTimers)
  /\ UNCHANGED <<http, tempFiles, queued, publishLogged, uploads, brokerUp,
                 connectCalls, outages, closeCalls,
                 relayVars, gatewayVars>>

\* what the upload and download routes change
uploadVars == <<http, tempFiles, queued, publishLogged, uploads>>

\* connect() has run to its end and its connection is open
Connected ==
  /\ calls = EmptyBag
  /\ mqConnection # 0
  /\ mqChannel = mqConnection
  /\ conns[mqConnection].up

\* the application calls connect(): at start, and again while connected
ConnectCalled ==
  /\ connectCalls < MaxConnects
  /\ connectCalls = 0 \/ Connected
  /\ connectCalls' = connectCalls + 1
  /\ ProducerStep(mqConnection, mqChannel, conns, connect(1), mqTimers)
  /\ UNCHANGED <<brokerUp, outages, closeCalls, uploadVars,
                 relayVars, gatewayVars>>

\* the promise of amqp.connect settles
AmqpConnectSettled ==
  /\ \E c \in BagToSet(calls) : amqpConnectSettled(c)
  /\ UNCHANGED <<brokerUp, connectCalls, outages, closeCalls, uploadVars,
                 relayVars,
                 gatewayVars>>

\* the promise of createChannel settles
CreateChannelSettled ==
  /\ \E c \in BagToSet(calls) : createChannelSettled(c)
  /\ UNCHANGED <<brokerUp, connectCalls, outages, closeCalls, uploadVars,
                 relayVars,
                 gatewayVars>>

\* the promise of assertQueue settles
AssertQueueSettled ==
  /\ \E c \in BagToSet(calls) : assertQueueSettled(c)
  /\ UNCHANGED <<brokerUp, connectCalls, outages, closeCalls, uploadVars,
                 relayVars,
                 gatewayVars>>

\* a timeout of line 34 fires
ReconnectTimer ==
  /\ reconnectTimer
  /\ UNCHANGED <<brokerUp, connectCalls, outages, closeCalls, uploadVars,
                 relayVars,
                 gatewayVars>>

\* a lost connection emits "close"
ConnectionClose ==
  /\ \E k \in DOMAIN conns : connectionClose(k)
  /\ UNCHANGED <<brokerUp, connectCalls, outages, closeCalls, uploadVars,
                 relayVars,
                 gatewayVars>>

\* the broker goes away: every open connection is lost
BrokerDown ==
  /\ brokerUp
  /\ outages < MaxOutages
  /\ brokerUp' = FALSE
  /\ outages' = outages + 1
  /\ ProducerStep(mqConnection, mqChannel,
                  [k \in DOMAIN conns |->
                     IF conns[k].up
                     THEN Conn(FALSE, conns[k].closeHandlers, TRUE)
                     ELSE conns[k]],
                  calls, mqTimers)
  /\ UNCHANGED <<connectCalls, closeCalls, uploadVars,
                 relayVars, gatewayVars>>

\* the broker is reachable again
BrokerUp ==
  /\ ~brokerUp
  /\ brokerUp' = TRUE
  /\ UNCHANGED <<mqConnection, mqChannel, conns, calls, mqTimers,
                 connectCalls, outages, closeCalls, uploadVars,
                 relayVars, gatewayVars>>

\* the identifiers the routes were asked with so far
Probed ==
  (IF cpc[1] # "idle" THEN {cjob[1]} ELSE {})
    \cup (IF http.endpoint # "none" THEN {http.id} ELSE {})

\* the uploads a client can send under the name n: req.file is set only
\* for a part with a name.  Inputs that cannot change the outcome are held
\* fixed: the size only matters for a file that passed the filter, the
\* content only for a file within the limit, the queue only for valid content
Upload(n) ==
  \E hasFile \in (IF n = <<>> THEN {FALSE} ELSE BOOLEAN), mimeJson \in BOOLEAN :
  \E tooBig \in (IF hasFile /\ fileFilter(mimeJson, n)
                 THEN BOOLEAN ELSE {FALSE}) :
  \E jsonValid \in (IF hasFile /\ fileFilter(mimeJson, n) /\ ~tooBig
                    THEN BOOLEAN ELSE {FALSE}) :
  \E sent \in (IF jsonValid THEN BOOLEAN ELSE {FALSE}) :
    /\ hasFile \/ ~mimeJson
    /\ UploadRequest(n, hasFile, tooBig, mimeJson, jsonValid, sent)

\* the request validation of the three routes: a client sends one
\* identifier, any that can be written, to the routes in any order
NextValidate ==
  \/ \E j \in JobIdInputs : Probed \subseteq {j} /\ StreamRequest(1, j)
  \/ \E j \in JobIdInputs, exists \in BOOLEAN :
       Probed \subseteq {j} /\ DownloadRequest(j, exists)
  \/ \E n \in JobIdInputs : Probed \subseteq {n} /\ Upload(n)
  \/ MqConnect
  \/ MqClosed

SpecValidate == Init /\ [][NextValidate]_vars

\* an upload that passes validation: a JSON document named a.json
ValidUpload ==
  \E sent \in BOOLEAN :
    UploadRequest(<<"a", ".", "j", "s", "o", "n">>, TRUE, FALSE, TRUE, TRUE, sent)

\* the queue producer and the uploads that publish through it: connect() is
\* called by the application, the broker comes and goes, clients upload
\* valid documents
NextProducer ==
  \/ ConnectCalled
  \/ AmqpConnectSettled
  \/ CreateChannelSettled
  \/ AssertQueueSettled
  \/ ReconnectTimer
  \/ ConnectionClose
  \/ BrokerDown
  \/ BrokerUp
  \/ ValidUpload

SpecProducer == Init /\ [][NextProducer]_vars

\* the application calls connect() once, at start
ConnectOnce ==
  /\ connectCalls = 0
  /\ ConnectCalled

\* the producer after a single connect(), with the broker coming and going
NextReconnect ==
  \/ ConnectOnce
  \/ AmqpConnectSettled
  \/ CreateChannelSettled
  \/ AssertQueueSettled
  \/ ReconnectTimer
  \/ ConnectionClose
  \/ BrokerDown
  \/ BrokerUp
  \/ ValidUpload

\* the event loop runs what is ready: the application's start-up call, every
\* settled promise, every expired timer and every emitted event; nothing
\* makes the broker come back or a client upload
SpecReconnect ==
  /\ Init
  /\ [][NextReconnect]_vars
  /\ WF_vars(ConnectOnce)
  /\ WF_vars(AmqpConnectSettled)
  /\ WF_vars(CreateChannelSettled)
  /\ WF_vars(AssertQueueSettled)
  /\ WF_vars(ReconnectTimer)
  /\ WF_vars(ConnectionClose)

\* the promise of createChannel rejects on an open connection
CreateChannelRejected ==
  /\ \E c \in BagToSet(calls) : createChannelRejected(c)
  /\ UNCHANGED <<brokerUp, connectCalls, outages, closeCalls, uploadVars,
                 relayVars,
                 gatewayVars>>

\* the promise of assertQueue rejects on an open connection
AssertQueueRejected ==
  /\ \E c \in BagToSet(calls) : assertQueueRejected(c)
  /\ UNCHANGED <<brokerUp, connectCalls, outages, closeCalls, uploadVars,
                 relayVars,
                 gatewayVars>>

\* the producer after a single connect(), with a broker that comes and goes
\* and may refuse a channel or the queue declaration
NextPartial ==
  \/ ConnectOnce
  \/ AmqpConnectSettled
  \/ CreateChannelSettled
  \/ CreateChannelRejected
  \/ AssertQueueSettled
  \/ AssertQueueRejected
  \/ ReconnectTimer
  \/ ConnectionClose
  \/ BrokerDown
  \/ BrokerUp

SpecPartial == Init /\ [][NextPartial]_vars

\* the application shuts the connected producer down
Close ==
  /\ closeCalls < MaxCloses
  /\ Connected
  /\ closeCalls' = closeCalls + 1
  /\ close
  /\ UNCHANGED <<brokerUp, connectCalls, outages, uploadVars, relayVars,
                 gatewayVars>>

\* the promise of channel.close() settles
ChannelCloseSettled ==
  /\ \E c \in BagToSet(calls) : channelCloseSettled(c)
  /\ UNCHANGED <<brokerUp, connectCalls, outages, closeCalls, uploadVars,
                 relayVars, gatewayVars>>

\* the promise of connection.close() settles
ConnectionCloseSettled ==
  /\ \E c \in BagToSet(calls) : connectionCloseSettled(c)
  /\ UNCHANGED <<brokerUp, connectCalls, outages, closeCalls, uploadVars,
                 relayVars, gatewayVars>>

\* the producer connected once and then shut down, with the broker coming
\* and going
NextShutdown ==
  \/ ConnectOnce
  \/ AmqpConnectSettled
  \/ CreateChannelSettled
  \/ AssertQueueSettled
  \/ ReconnectTimer
  \/ ConnectionClose
  \/ BrokerDown
  \/ BrokerUp
  \/ Close
  \/ ChannelCloseSettled
  \/ ConnectionCloseSettled

SpecShutdown == Init /\ [][NextShutdown]_vars

\* an identifier that is empty or contains ".." or "/"
BadId(id) ==
  \/ Len(id) = 0
  \/ \E i \in 1..Len(id) : id[i] = "/"
  \/ \E i \in 1..(Len(id) - 1) : id[i] = "." /\ id[i + 1] = "."

\* C9 as claimed: a streaming request with an identifier that is empty or
\* contains ".." or "/" is answered 4xx and has no side effect, and an upload
\* that carries such an identifier is rejected
BothEndpointsReject ==
  /\ \A c \in Ids :
       (cpc[c] # "idle" /\ BadId(cjob[c])) =>
          /\ httpStatus[c] \in 400..499
          /\ frames[c] = <<>>
          /\ c \notin Listeners(ChannelOf(cjob[c]))
          /\ ~heartbeat[c]
          /\ ~MapHas(sseConnections, cjob[c])
  /\ (http.endpoint = "upload" /\ BadId(http.id)) =>
       (~http.success /\ http.status >= 400)

\* C9: the streaming and download endpoints answer 400 to every identifier
\* that is empty or contains ".." or "/", the streaming endpoint before any
\* side effect; the identifier the submission endpoint assigns is never one
ValidationRejects ==
  [][/\ \A c \in Ids :
          /\ (cpc[c] # "idle" /\ BadId(cjob[c]))' =>
               (cpc[c] = "rejected" /\ httpStatus[c] = 400)'
          /\ (cpc[c] = "idle" /\ cpc'[c] # "idle" /\ BadId(cjob'[c])) =>
               UNCHANGED <<relayVars, sseConnections, frames, heartbeat,
                           timers>>
      /\ ((http.endpoint = "download" /\ BadId(http.id)) =>
            http.status = 400)'
      /\ ((http.endpoint = "upload" /\ http.success) =>
            ~BadId(http.fileId))']_vars

\* the streaming and the download endpoint rejected "..", and an upload got
\* an identifier assigned
ValidationWitness ==
  /\ cpc[1] = "rejected" /\ cjob[1] = <<".", ".">> /\ frames[1] = <<>>
  /\ http.endpoint = "download" /\ http.id = <<".", ".">> /\ http.status = 400
  /\ uploads > 0 /\ tempFiles # {}

\* ------------------------------------------------ queue producer claims
\* no connection to the broker is open
NoOpenConnection == \A k \in DOMAIN conns : ~conns[k].up

\* this step is an upload that got as far as publishToQueue
Dispatch ==
  /\ uploads' = uploads + 1
  /\ http'.error \notin {"No file uploaded", "Only JSON files are allowed",
                         "File size exceeds 10MB limit", "Invalid JSON file"}

\* C11: while no connection to the broker is open (never connected, attempt
\* failed or not yet answered, connection lost) publishToQueue fails and the
\* message does not reach the queue; the queue only ever gains the message
\* of the upload being handled, so a message whose publish failed is not
\* sent later
FailFastPublish ==
  [][/\ (NoOpenConnection /\ Dispatch) =>
          (publishLogged' = publishLogged + 1 /\ queued' = queued)
     /\ \A f \in queued' \ queued : Dispatch /\ f = http'.fileId]_vars

\* an upload was dispatched after the connection was lost
FailFastWitness ==
  /\ NoOpenConnection
  /\ mqChannel # 0
  /\ http.endpoint = "upload"
  /\ http.error = "none"
  /\ publishLogged = 1
  /\ queued = {}

\* C12: connect() called again while connected is a no-op: the producer
\* never has a second open connection and no connection has a second
\* "close" handler
ConnectIdempotent ==
  /\ Cardinality({k \in DOMAIN conns : conns[k].up}) <= 1
  /\ \A k \in DOMAIN conns : conns[k].closeHandlers <= 1

\* "close" handlers on connections that have not emitted "close" yet
ArmedHandlers ==
  LET armed == {k \in DOMAIN conns : conns[k].up \/ conns[k].closePending}
      RECURSIVE Sum(_)
      Sum(S) == IF S = {} THEN 0
                ELSE LET k == CHOOSE x \in S : TRUE
                     IN conns[k].closeHandlers + Sum(S \ {k})
  IN Sum(armed)

\* this step delivers the "close" event of a connection that has a handler
LossHandled ==
  \E k \in DOMAIN conns :
    /\ conns[k].closePending
    /\ conns[k].closeHandlers > 0
    /\ k \in DOMAIN conns' => ~conns'[k].closePending

\* C13 as claimed: the retry after a connection loss comes only once the
\* reconnect interval has passed, so handling the loss starts no attempt
RetryAfterLossWaits ==
  [][LossHandled => BagCardinality(calls') <= BagCardinality(calls)]_vars

\* C13: after connect() the retry loop never ends: an attempt is under way,
\* or the timer of a failed attempt is armed, or a "close" handler waits on
\* the connection; the handler of a lost connection starts the next attempt
\* itself, without the interval; and if the broker stays reachable from
\* some time on, the producer ends up able to publish for good
ReconnectsForever ==
  /\ [](connectCalls = 1 => BagCardinality(calls) + mqTimers + ArmedHandlers = 1)
  /\ [][LossHandled => BagCardinality(calls') > BagCardinality(calls)]_vars
  /\ (<>[]brokerUp) => <>[]publishToQueue(TRUE)

\* the producer is connected again after the broker went away
ReconnectsWitness ==
  /\ outages > 0
  /\ Connected
  /\ ArmedHandlers = 1

\* the job identifiers of the stored input files
StoredJobs(files) == {Basename(t, Extname(t)) : t \in files}

\* C14: an upload that passed validation and whose publishToQueue failed is
\* answered 200 with success and the job's identifier, the failure is
\* logged, the input file stays, and the job is not enqueued, then or
\* later: the queue only gains jobs whose input file is stored in that step
DispatchDecoupled ==
  [][/\ (uploads' = uploads + 1 /\ publishLogged' = publishLogged + 1) =>
          /\ http'.status = 200
          /\ http'.success
          /\ http'.fileId \in StoredJobs(tempFiles') \ StoredJobs(tempFiles)
          /\ tempFiles \subseteq tempFiles'
          /\ queued' = queued
     /\ \A f \in queued' \ queued : f \notin StoredJobs(tempFiles)]_vars

\* an upload was answered with success while the broker was away
DispatchDecoupledWitness ==
  /\ outages > 0
  /\ ~brokerUp
  /\ mqChannel # 0
  /\ publishLogged = uploads
  /\ http.success
  /\ http.fileId \in StoredJobs(tempFiles) \ queued

\* C15: an upload whose content is not valid JSON is answered 4xx without
\* success, publishToQueue is not called for it (nothing is enqueued and no
\* publish failure is logged), and the file multer stored for it is gone
\* when the response is sent
InvalidJsonRejected ==
  [][(uploads' = uploads + 1 /\ http'.error = "Invalid JSON file") =>
       /\ http'.status \in 400..499
       /\ ~http'.success
       /\ queued' = queued
       /\ publishLogged' = publishLogged
       /\ randomUUID(uploads') \o Extname(http'.id) \notin tempFiles'
       /\ tempFiles' = tempFiles]_vars

\* an invalid document was rejected while the producer was connected and an
\* earlier upload had been stored and enqueued
InvalidJsonWitness ==
  /\ http.error = "Invalid JSON file"
  /\ http.status = 400
  /\ publishToQueue(TRUE)
  /\ uploads = 2
  /\ Cardinality(tempFiles) = 1
  /\ Cardinality(queued) = 1

\* ------------------------------------------- gateway resource properties
\* the streaming connections that are open: the request was accepted, the
\* transport has not closed, the response was not ended, cleanup has not run
OpenConnections ==
  {c \in Ids : /\ cpc[c] \in {"subscribing", "open"}
               /\ ~gone[c]
               /\ ended[c] = 0
               /\ cleanupRuns[c] = 0}

\* nothing is on its way to or from the bus
BusQuiet == outQ = <<>> /\ \A i \in 1..Len(inQ) : inQ[i].kind # "reply"

\* C16: whenever no upstream call is in flight, the bus has at most as many
\* subscriptions open as there are jobs with an open streaming connection
UpstreamBoundedByJobs ==
  BusQuiet =>
    Cardinality(upstreamOpen) <= Cardinality({cjob[c] : c \in OpenConnections})

\* C17: a callback leaves its channel's set only in the step that invokes
\* its own handle, and a second invocation of a handle changes no set and
\* sends no command to the bus
HandleRemovesOnlyItsListener ==
  [][/\ \A ch \in Channels, k \in Ids :
          (k \in Listeners(ch) /\ k \notin Listeners(ch)') =>
             handleCalls'[k] = handleCalls[k] + 1
     /\ \A l \in Ids :
          (handleCalls[l] >= 1 /\ handleCalls'[l] > handleCalls[l]) =>
             UNCHANGED <<subscriptions, outQ, issued>>]_vars

\* C18: the interval timer writes a heartbeat only to a connection that is
\* open, and once cleanup has run for a connection its timer is cancelled
HeartbeatOnlyWhileOpen ==
  [][\A c \in Ids :
       /\ (beats'[c] > beats[c] /\ ended[c] = 0) => c \in OpenConnections
       /\ (cleanupRuns[c] > 0 => ~heartbeat[c])']_vars

\* C19: a connection whose upstream subscribe was rejected has got the
\* connected frame and no data frame, has its heartbeat timer running while
\* the client is there, and is torn down once the client has left
DegradedStreaming ==
  \A c \in Ids :
    lstate[c] = "rejected" =>
      /\ Head(frames[c]) = "connected"
      /\ Count(frames[c], "data") = 0
      /\ ~gone[c] => heartbeat[c]
      /\ gone[c] => cleanupRuns[c] > 0

\* C20: once cleanup has run for a connection, the only one of its job, no
\* step writes to its response or ends it
ClosedIsTerminal ==
  [][\A c \in Ids :
       (Solo(c) /\ cleanupRuns[c] > 0) =>
         /\ frames'[c] = frames[c]
         /\ lateWrites'[c] = lateWrites[c]
         /\ ended'[c] = ended[c]]_vars

\* ------------------------------------------------- fan-out properties
\* the positions of the log at which callback l was invoked
CallsOf(log, l) ==
  {i \in 1..Len(log) : log[i].op = "call" /\ log[i].l = l}

\* C21: in a fan-out no callback is invoked after its handle removed it, and
\* every callback that is in the channel's set when the fan-out ends was
\* invoked once with the event
RemovedNotInvoked ==
  [][FanOutStep =>
       LET log == lastDispatched'.log IN
       /\ \A i, j \in 1..Len(log) :
            (i < j /\ log[i].op = "remove" /\ log[j].op = "call")
               => log[i].l # log[j].l
       /\ \A ch \in Channels : ch = Head(inQ).ch =>
            \A l \in Listeners(ch)' :
              /\ Cardinality(CallsOf(log, l)) = 1
              /\ invoked'[l] = Append(invoked[l], Head(inQ).ev)]_vars

\* the first callback of a fan-out removed its peer: the peer was not
\* invoked, the first stays registered
RemovedNotInvokedWitness ==
  \E l, k \in Ids :
    /\ l # k
    /\ lastDispatched.log = <<[op |-> "call", l |-> k], [op |-> "remove", l |-> l]>>
    /\ invoked[l] = <<>>
    /\ invoked[k] = <<lastDispatched.ev>>
    /\ Listeners(lastDispatched.ch) = {k}

\* x comes before y in the sequence
Before(seq, x, y) ==
  \E i, j \in 1..Len(seq) : i < j /\ seq[i] = x /\ seq[j] = y

\* C22: a callback that registers goes behind the callbacks of its channel,
\* the callbacks that stay keep their order, a fan-out invokes callbacks in
\* that order, and a callback is invoked only by a fan-out, once, with an
\* event the bus delivered after every event it was invoked with before
DeliveryOrder ==
  [][/\ \A ch \in Channels :
          /\ \A l \in Listeners(ch)' \ Listeners(ch) :
               subscriptions'[ch] =
                 Append(IF MapHas(subscriptions, ch)
                        THEN subscriptions[ch] ELSE <<>>, l)
          /\ \A l, k \in Listeners(ch)' \cap Listeners(ch) :
               Before(subscriptions[ch], l, k) <=> Before(subscriptions'[ch], l, k)
     /\ FanOutStep =>
          LET log == lastDispatched'.log
              turns == {i \in 1..Len(log) : log[i].op = "call"}
          IN \A i, j \in turns :
               i < j => Before(subscriptions[Head(inQ).ch], log[i].l, log[j].l)
     /\ \A l \in Ids :
          invoked'[l] # invoked[l] =>
            /\ FanOutStep
            /\ invoked'[l] = Append(invoked[l], Head(inQ).ev)
            /\ \A i \in 1..Len(invoked[l]) : invoked[l][i] < Head(inQ).ev]_vars

\* the callback that subscribed first registered second; both got two
\* events, each time the one registered first was invoked first
DeliveryOrderWitness ==
  \E ch \in Channels :
    /\ MapHas(subscriptions, ch)
    /\ subscriptions[ch] = <<2, 1>>
    /\ invoked[1] = <<1, 2>>
    /\ invoked[2] = <<1, 2>>
    /\ lastDispatched.log = <<[op |-> "call", l |-> 2], [op |-> "call", l |-> 1]>>

\* C23: once a connection has forwarded a completed or failed event no
\* further data frame is written to it, and its response gets one close
\* frame and is ended once
TerminalEndsOnce ==
  [][\A c \in Ids :
       /\ (timers[c] + ended[c] > 0) =>
            /\ Count(frames'[c], "data") = Count(frames[c], "data")
            /\ timers'[c] <= timers[c]
       /\ ended'[c] <= 1
       /\ Count(frames'[c], "close") <= 1]_vars

\* the callbacks a subscriptions map holds for a channel
CallbacksOf(m, ch) == IF MapHas(m, ch) THEN m[ch] ELSE <<>>

\* the channel name tells the job ids apart
DistinctChannels ==
  \A i \in JobIdInputs, j \in JobIdInputs : i # j => ChannelOf(i) # ChannelOf(j)

\* C24: distinct job ids have distinct channels; an event received on the
\* channel of job A invokes no callback subscribed for another job B, and
\* a subscribe or an unsubscribe on A (the call, its command at the bus,
\* its reply) leaves B's entry of the subscriptions map, the commands
\* issued for B and B's upstream subscription as they were
ChannelIsolation ==
  [][/\ DistinctChannels
     /\ \A A \in Jobs, B \in Jobs : A # B =>
          LET chA == ChannelOf(A)
              chB == ChannelOf(B)
              eventOnA == /\ inQ # <<>>
                          /\ Head(inQ).kind = "message"
                          /\ Head(inQ).ch = chA
                          /\ inQ' = Tail(inQ)
              replyOnA == /\ inQ # <<>>
                          /\ Head(inQ).kind = "reply"
                          /\ Head(inQ).ch = chA
                          /\ inQ' = Tail(inQ)
              busOnA == /\ outQ # <<>>
                        /\ Head(outQ).ch = chA
                        /\ outQ' = Tail(outQ)
              callOnA == \E l \in Ids :
                           /\ lchan'[l] = chA
                           /\ \/ lstate'[l] # lstate[l]
                              \/ handleCalls'[l] # handleCalls[l]
          IN /\ eventOnA =>
                  \A l \in Ids : lchan[l] = chB => invoked'[l] = invoked[l]
             /\ (callOnA \/ busOnA \/ replyOnA) =>
                  /\ MapHas(subscriptions', chB) = MapHas(subscriptions, chB)
                  /\ CallbacksOf(subscriptions', chB)
                       = CallbacksOf(subscriptions, chB)
                  /\ (chB \in upstreamOpen') = (chB \in upstreamOpen)
                  /\ \A k \in {"subscribe", "unsubscribe"} :
                       issued'[<<k, chB>>] = issued[<<k, chB>>]]_vars

\* an event of job a has reached the callback of job a and not the
\* registered callback of job b
ChannelIsolationWitness ==
  \E l \in Ids, k \in Ids :
    /\ lchan[l] = ChannelOf(<<"a">>) /\ lchan[k] = ChannelOf(<<"b">>)
    /\ lstate[l] = "registered" /\ lstate[k] = "registered"
    /\ k \in Range(CallbacksOf(subscriptions, ChannelOf(<<"b">>)))
    /\ ChannelOf(<<"b">>) \in upstreamOpen
    /\ lastDispatched.ch = ChannelOf(<<"a">>)
    /\ invoked[l] = <<1>> /\ invoked[k] = <<>>

\* C25: a message whose payload does not decode is consumed by the catch of
\* line 52: the error is logged once, no callback is invoked, the
\* subscriptions and everything else the relay holds stay as they were;
\* a message that decodes, whatever was dropped before it, invokes every
\* callback of its channel that is still registered when the fan-out ends
UndecodableDropped ==
  [][(inQ # <<>> /\ Head(inQ).kind = "message" /\ inQ' = Tail(inQ)) =>
       IF Head(inQ).wire = "garbage"
       THEN /\ invoked' = invoked
            /\ subscriptions' = subscriptions
            /\ parseErrors' = parseErrors + 1
            /\ lastDispatched'.log = <<>>
            /\ UNCHANGED <<upstreamOpen, outQ, lstate, lchan, handleCalls,
                           issued, cbErrors>>
       ELSE /\ parseErrors' = parseErrors
            /\ \A ch \in Channels : ch = Head(inQ).ch =>
                 \A l \in Range(CallbacksOf(subscriptions', ch)) :
                   invoked'[l] = Append(invoked[l], Head(inQ).ev)]_vars

\* the first event did not decode and reached no callback, the second
\* reached both callbacks of the channel
UndecodableDroppedWitness ==
  /\ parseErrors = 1
  /\ lastDispatched.ev = 2
  /\ \A l \in Ids : lstate[l] = "registered" /\ invoked[l] = <<2>>
  /\ Len(CallbacksOf(subscriptions, ChannelOf(<<"a">>))) = NumListeners

\* C26: the producer has at most one open connection, every open
\* connection is the one it references, and at most one reconnect attempt
\* is pending or in flight
SingleConnection ==
  LET open == {k \in DOMAIN conns : conns[k].up} IN
  /\ Cardinality(open) <= 1
  /\ \A k \in open : k = mqConnection
  /\ BagCardinality(calls) + mqTimers <= 1

\* C27: once close() has been called no broker connection is opened, here
\* for a producer whose broker never went away
ShutdownFinal ==
  [][(closeCalls > 0 /\ outages' = 0) =>
       \A k \in DOMAIN conns' :
         conns'[k].up => k \in DOMAIN conns /\ conns[k].up]_vars

====
